---- MODULE Spec2Model ----
(***************************************************************************)
(* A model of the PLU catalog parser (src/src/utils/parser.rs).            *)
(*                                                                         *)
(* A Rust &str is modelled as a sequence of characters; a character is a   *)
(* one-element TLA+ string, except for the four non-ASCII characters the   *)
(* source uses, which are the named values Bullet, UHyphen, Sup1..Sup3.    *)
(* Every regular expression of the source is an operator that computes the *)
(* same match (and the same capture groups) on such sequences.             *)
(***************************************************************************)
EXTENDS Integers, Sequences, FiniteSets, TLC

VARIABLES
    shape,          \* history: the description the input text was built from
    text,           \* the input: the lines of `text` (text.lines())
    idx,            \* index of the line the `for` loop takes next
    items,          \* `items`: the Vec<PluItem> being built
    category_path,  \* `category_path`: the VecDeque<String>
    processed,      \* the local `processed` at the end of the last iteration
    diag,           \* history: what was written to stderr, with the line index
    origin,         \* history: origin[k] is the index of the line that pushed items[k]
    ret,            \* the value returned by the function under check
    pc              \* control point

vars == <<shape, text, idx, items, category_path, processed, diag, origin, ret, pc>>

(***************************************************************************)
(* Characters and strings.                                                 *)
(***************************************************************************)
Bullet  == "BULLET"     \* U+2022
UHyphen == "HYPHEN"     \* U+2010
Sup1    == "SUP1"       \* U+00B9
Sup2    == "SUP2"       \* U+00B2
Sup3    == "SUP3"       \* U+00B3

\* A string literal as a sequence of characters.
Chars(s) == [i \in 1..Len(s) |-> SubSeq(s, i, i)]

Digits == {"0", "1", "2", "3", "4", "5", "6", "7", "8", "9"}
Upper  == {"A", "B", "C", "D", "E", "F", "G", "H", "I", "J", "K", "L", "M",
           "N", "O", "P", "Q", "R", "S", "T", "U", "V", "W", "X", "Y", "Z"}
Lower  == {"a", "b", "c", "d", "e", "f", "g", "h", "i", "j", "k", "l", "m",
           "n", "o", "p", "q", "r", "s", "t", "u", "v", "w", "x", "y", "z"}
\* \s and char::is_whitespace, restricted to the characters of the model.
WhiteSpace == {" ", "\t"}

UpperSeq == Chars("ABCDEFGHIJKLMNOPQRSTUVWXYZ")
LowerSeq == Chars("abcdefghijklmnopqrstuvwxyz")

\* char::to_lowercase on the model's characters.
LowerOf(c) ==
    IF c \in Upper
        THEN LowerSeq[CHOOSE i \in 1..26 : UpperSeq[i] = c]
        ELSE c

\* str::to_lowercase
ToLowercase(s) == [i \in 1..Len(s) |-> LowerOf(s[i])]

\* s[i..] in Rust's half-open, 0-based terms is From(s, i + 1).
From(s, i) == SubSeq(s, i, Len(s))

\* The first position >= i of s that holds no character of set cs (Len(s)+1 if none).
RECURSIVE SkipSet(_, _, _)
SkipSet(s, i, cs) ==
    IF i <= Len(s) /\ s[i] \in cs THEN SkipSet(s, i + 1, cs) ELSE i

\* The last position <= i of s that holds no character of set cs (0 if none).
RECURSIVE SkipSetBack(_, _, _)
SkipSetBack(s, i, cs) ==
    IF i >= 1 /\ s[i] \in cs THEN SkipSetBack(s, i - 1, cs) ELSE i

\* str::trim_matches(|c| c in cs)
TrimMatches(s, cs) ==
    LET a == SkipSet(s, 1, cs)
        b == SkipSetBack(s, Len(s), cs)
    IN  IF a > b THEN <<>> ELSE SubSeq(s, a, b)

\* str::trim
Trim(s) == TrimMatches(s, WhiteSpace)

\* str::trim_end_matches(c)
TrimEndMatches(s, c) == SubSeq(s, 1, SkipSetBack(s, Len(s), {c}))

\* p occurs in s at position i
MatchAt(s, i, p) ==
    /\ i >= 1
    /\ i + Len(p) - 1 <= Len(s)
    /\ \A k \in 1..Len(p) : s[i + k - 1] = p[k]

\* str::starts_with, str::ends_with, str::contains
StartsWith(s, p) == MatchAt(s, 1, p)
EndsWith(s, p)   == MatchAt(s, Len(s) - Len(p) + 1, p)
Contains(s, p)   == \E i \in 1..(Len(s) + 1) : MatchAt(s, i, p)

\* str::split(c): the pieces between the occurrences of c, empty ones included.
RECURSIVE SplitFrom(_, _, _, _)
SplitFrom(s, i, start, c) ==
    IF i > Len(s) THEN <<SubSeq(s, start, Len(s))>>
    ELSE IF s[i] = c
        THEN <<SubSeq(s, start, i - 1)>> \o SplitFrom(s, i + 1, i + 1, c)
        ELSE SplitFrom(s, i + 1, start, c)

Split(s, c) == SplitFrom(s, 1, 1, c)

\* Option<T>: None is <<>>, Some(v) is <<v>>.
None    == <<>>
Some(v) == <<v>>

(***************************************************************************)
(* parse_plu_codes                                                         *)
(***************************************************************************)
\* The dash characters of the class [-U+2010].
Dashes == {"-", UHyphen}

\* re_range of parse_plu_codes: ^\d+[-U+2010]\d+$
ReRangeIsMatch(s) ==
    LET d == SkipSet(s, 1, Digits)
    IN  /\ d > 1
        /\ d < Len(s)
        /\ s[d] \in Dashes
        /\ SkipSet(s, d + 1, Digits) = Len(s) + 1

\* re_extract_all_numbers.find_iter: the maximal runs of digits, left to right.
RECURSIVE FindNumbers(_, _)
FindNumbers(s, i) ==
    IF i > Len(s) THEN <<>>
    ELSE IF s[i] \in Digits
        THEN LET e == SkipSet(s, i, Digits)
             IN  <<SubSeq(s, i, e - 1)>> \o FindNumbers(s, e)
        ELSE FindNumbers(s, i + 1)

DigitVal(c) == CHOOSE v \in 0..9 : Chars("0123456789")[v + 1] = c

\* The value of a string of digits. The model checker's integers are 32-bit
\* signed: the texts of the model hold no run of digits with a value from
\* 2^31 to 2^32 - 1.
RECURSIVE DecimalValue(_)
DecimalValue(s) ==
    IF s = <<>> THEN 0
    ELSE 10 * DecimalValue(SubSeq(s, 1, Len(s) - 1)) + DigitVal(s[Len(s)])

\* u32::MAX, as its digits.
U32MaxDigits == Chars("4294967295")

\* a <= b for two strings of digits of the same length
RECURSIVE DigitsLeq(_, _)
DigitsLeq(a, b) ==
    IF a = <<>> THEN TRUE
    ELSE IF a[1] # b[1] THEN DigitVal(a[1]) < DigitVal(b[1])
    ELSE DigitsLeq(Tail(a), Tail(b))

\* str::parse::<u32> on a non-empty string of digits: Err (None) on overflow.
ParseU32(s) ==
    LET z == From(s, SkipSet(s, 1, {"0"}))
    IN  IF \/ Len(z) < Len(U32MaxDigits)
           \/ (Len(z) = Len(U32MaxDigits) /\ DigitsLeq(z, U32MaxDigits))
            THEN Some(DecimalValue(z))
            ELSE None

\* The prefixes of the 5-digit numbers that are cut to 4 digits.
TruncatablePrefixes == {Chars("4136"), Chars("4137"), Chars("3392")}

\* A variant of IsTruncatable that leaves out `num_str.len() == 5`.
IsTruncatableAnyLength(num_str) ==
    \E p \in TruncatablePrefixes : StartsWith(num_str, p)

IsTruncatable(num_str) ==
    /\ Len(num_str) = 5
    /\ \E p \in TruncatablePrefixes : StartsWith(num_str, p)

\* The body of the `for (i, num_str)` loop, from iteration i on.
RECURSIVE CodesLoop(_, _, _, _)
CodesLoop(potential_numbers, i, skip_next_number, actual_codes) ==
    IF i > Len(potential_numbers) THEN actual_codes
    ELSE IF skip_next_number
        THEN CodesLoop(potential_numbers, i + 1, FALSE, actual_codes)
    ELSE LET num_str == potential_numbers[i]
             trunc   == IsTruncatable(num_str)
             current_code_str == IF trunc THEN SubSeq(num_str, 1, 4) ELSE num_str
             skip    == trunc /\ i + 1 <= Len(potential_numbers)
         IN  CodesLoop(potential_numbers, i + 1, skip,
                       actual_codes \o ParseU32(current_code_str))

parse_plu_codes(t) ==
    LET inner_text == TrimMatches(t, {"(", ")"})
    IN  IF inner_text = <<>> THEN <<>>
        ELSE IF ReRangeIsMatch(inner_text) THEN <<>>
        ELSE CodesLoop(FindNumbers(inner_text, 1), 1, FALSE, <<>>)

(***************************************************************************)
(* Pattern matching. A piece of a regular expression is an operator that   *)
(* takes the position p where it starts and gives the position after what  *)
(* it matched, or NoMatch; NoMatch as the start gives NoMatch, so that the *)
(* pieces of an expression are nested in the order they are written.       *)
(***************************************************************************)
NoMatch == 0

\* \s*
MatchSpaces(s, p) == IF p = NoMatch THEN NoMatch ELSE SkipSet(s, p, WhiteSpace)

\* one character c
MatchChar(s, p, c) ==
    IF p # NoMatch /\ p <= Len(s) /\ s[p] = c THEN p + 1 ELSE NoMatch

\* [cs]+ (greedy), before a character that is not in cs
MatchClassPlus(s, p, cs) ==
    IF p # NoMatch /\ SkipSet(s, p, cs) > p THEN SkipSet(s, p, cs) ELSE NoMatch

\* The positions of s that hold the character c.
Positions(s, c) == {i \in 1..Len(s) : s[i] = c}

Min(S) == CHOOSE x \in S : \A y \in S : x <= y
Max(S) == CHOOSE x \in S : \A y \in S : x >= y

\* The first position >= i of s that holds a character of set cs (Len(s)+1 if none).
RECURSIVE FindSet(_, _, _)
FindSet(s, i, cs) ==
    IF i <= Len(s) /\ s[i] \notin cs THEN FindSet(s, i + 1, cs) ELSE i

(***************************************************************************)
(* The field extractors                                                    *)
(***************************************************************************)
\* re_chars: ^(.*)\[(.+?)\](.*)$
\* Group 1 is greedy: it ends before the last '[' that a ']' follows at a
\* distance of two or more; group 2 is lazy: it ends before the first such ']'.
ReCharsCloses(s, i) == {j \in Positions(s, "]") : j >= i + 2}
ReCharsOpens(s)     == {i \in Positions(s, "[") : ReCharsCloses(s, i) # {}}

\* The captures <<1, 2, 3>> for the '[' at i and the ']' at j.
ReCharsCapturesAt(s, i, j) ==
    <<SubSeq(s, 1, i - 1), SubSeq(s, i + 1, j - 1), From(s, j + 1)>>

ReCharsOpenAt(s, i) == ReCharsCapturesAt(s, i, Min(ReCharsCloses(s, i)))

\* The captures <<1, 2, 3>>, or None.
ReCharsCaptures(s) ==
    IF ReCharsOpens(s) = {} THEN None
    ELSE Some(ReCharsOpenAt(s, Max(ReCharsOpens(s))))

\* .split(',').map(|s| s.trim().to_string()).collect()
TrimmedPieces(pieces) == [k \in 1..Len(pieces) |-> Trim(pieces[k])]

\* A variant of CharacteristicsOf that leaves out the `s.trim()` of the pieces.
CharacteristicsUntrimmed(caps) ==
    <<Trim(caps[1] \o caps[3]), Split(caps[2], ",")>>

\* The `if let Some(caps)` branch of extract_characteristics.
CharacteristicsOf(caps) ==
    <<Trim(caps[1] \o caps[3]), TrimmedPieces(Split(caps[2], ","))>>

extract_characteristics(t) ==
    IF ReCharsCaptures(t) # None
        THEN CharacteristicsOf(ReCharsCaptures(t)[1])
        ELSE <<t, <<>>>>

\* re_alt: ^(.*?)\s*/\s*([^,(]+)(.*)$
\* Group 1 is lazy, so the first '/' that lets the rest match is taken: one
\* that a character other than ',' and '(' follows.
ReAltStops == {",", "("}

ReAltSlashes(s) ==
    {k \in Positions(s, "/") : k < Len(s) /\ s[k + 1] \notin ReAltStops}

\* Where group 2 starts, w being the end of the greedy \s* after the '/':
\* \s* gives one character back when nothing else is left for group 2.
ReAltGroup2Start(s, w) ==
    IF w <= Len(s) /\ s[w] \notin ReAltStops THEN w ELSE w - 1

\* The captures <<1, 2, 3>> for the '/' at k, group 2 starting at a.
ReAltCapturesFrom(s, k, a) ==
    <<SubSeq(s, 1, SkipSetBack(s, k - 1, WhiteSpace)),
      SubSeq(s, a, FindSet(s, a, ReAltStops) - 1),
      From(s, FindSet(s, a, ReAltStops))>>

ReAltCapturesAt(s, k) ==
    ReAltCapturesFrom(s, k, ReAltGroup2Start(s, SkipSet(s, k + 1, WhiteSpace)))

\* The captures <<1, 2, 3>>, or None.
ReAltCaptures(s) ==
    IF ReAltSlashes(s) = {} THEN None
    ELSE Some(ReAltCapturesAt(s, Min(ReAltSlashes(s))))

\* The `if let Some(caps)` branch of extract_alternative_name.
AlternativeNameOf(caps) ==
    <<Trim(Trim(caps[1]) \o Trim(caps[3])), Some(Trim(caps[2]))>>

extract_alternative_name(t) ==
    IF ReAltCaptures(t) # None
        THEN AlternativeNameOf(ReAltCaptures(t)[1])
        ELSE <<t, None>>

\* The alternation (small|medium|large|extra large|jumbo), in its order.
SizeWords == <<Chars("small"), Chars("medium"), Chars("large"),
               Chars("extra large"), Chars("jumbo")>>

IsSizeWord(s) == \E k \in 1..Len(SizeWords) : SizeWords[k] = s

\* The `match` of normalize_size on the trimmed, lower-cased string.
NormalizedOr(low, trimmed) == IF IsSizeWord(low) THEN low ELSE trimmed

normalize_size(size_str) ==
    NormalizedOr(ToLowercase(Trim(size_str)), Trim(size_str))

(***************************************************************************)
(* process_item_line                                                       *)
(***************************************************************************)
\* The class [\d,\s\-U+2010 U+00B9 U+00B2 U+00B3] of the code groups.
CodeClass == Digits \cup WhiteSpace \cup Dashes \cup {",", Sup1, Sup2, Sup3}

\* (small|medium|large|extra large|jumbo): no word is a prefix of another,
\* so at most one matches at a position.
SizeWordsAt(s, p) == {k \in 1..Len(SizeWords) : MatchAt(s, p, SizeWords[k])}

MatchSize(s, p) ==
    IF p = NoMatch \/ SizeWordsAt(s, p) = {} THEN NoMatch
    ELSE p + Len(SizeWords[Min(SizeWordsAt(s, p))])

\* \s*(SIZE)\s*\(([class]+)\) from position p on: where the size word
\* starts and ends, where the codes start and end, and where the group ends.
GroupSizeStart(s, p)  == MatchSpaces(s, p)
GroupSizeEnd(s, p)    == MatchSize(s, GroupSizeStart(s, p))
GroupCodesStart(s, p) == MatchChar(s, MatchSpaces(s, GroupSizeEnd(s, p)), "(")
GroupCodesEnd(s, p)   == MatchClassPlus(s, GroupCodesStart(s, p), CodeClass)
GroupEnd(s, p)        == MatchChar(s, GroupCodesEnd(s, p), ")")

\* The captures of a group that matched from p on: <<size, codes>>.
GroupCaptures(s, p) ==
    <<SubSeq(s, GroupSizeStart(s, p), GroupSizeEnd(s, p) - 1),
      SubSeq(s, GroupCodesStart(s, p), GroupCodesEnd(s, p) - 1)>>

\* re_size_split and re_alt_size_split (the same pattern):
\* ^(.*?),\s*(SIZE)\s*\(([class]+)\),\s*(SIZE)\s*\(([class]+)\)$
\* With group 1 ending before the ',' at c: where the second size group
\* starts, and where the match ends.
SecondGroupStart(s, c) == MatchChar(s, GroupEnd(s, c + 1), ",")
SizeSplitEnd(s, c)     == GroupEnd(s, SecondGroupStart(s, c))

\* Group 1 is lazy: it ends before the first ',' from which the rest matches.
SizeSplitCommas(s) ==
    {c \in Positions(s, ",") : SizeSplitEnd(s, c) = Len(s) + 1}

\* The captures <<1, 2, 3, 4, 5>> with group 1 ending before the ',' at c.
SizeSplitCapturesAt(s, c) ==
    <<SubSeq(s, 1, c - 1)>> \o GroupCaptures(s, c + 1)
                            \o GroupCaptures(s, SecondGroupStart(s, c))

\* The captures <<1, 2, 3, 4, 5>>, or None.
ReSizeSplitCaptures(s) ==
    IF SizeSplitCommas(s) = {} THEN None
    ELSE Some(SizeSplitCapturesAt(s, Min(SizeSplitCommas(s))))

\* re_standard: ^(.*?)\s*\(([class]+)\)$
\* The class holds no parenthesis, so group 2 starts after the last '('.
\* The captures <<1, 2>> with that '(' at q.
ReStandardCapturesAt(s, q) ==
    IF /\ Len(s) >= 3 /\ s[Len(s)] = ")"
       /\ q >= 1 /\ q < Len(s) - 1 /\ s[q] = "("
        THEN Some(<<SubSeq(s, 1, SkipSetBack(s, q - 1, WhiteSpace)),
                    SubSeq(s, q + 1, Len(s) - 1)>>)
        ELSE None

\* The captures <<1, 2>>, or None.
ReStandardCaptures(s) ==
    ReStandardCapturesAt(s, SkipSetBack(s, Len(s) - 1, CodeClass))

\* re_size_suffix: ^(.*?),\s*(SIZE)$
\* Group 1 is lazy: it ends before the first ',' that only white space and
\* a size word follow.
SizeSuffixAfter(s, c) == From(s, SkipSet(s, c + 1, WhiteSpace))
SizeSuffixCommas(s)   == {c \in Positions(s, ",") : IsSizeWord(SizeSuffixAfter(s, c))}

\* The captures <<1, 2>>, or None.
ReSizeSuffixCaptures(s) ==
    IF SizeSuffixCommas(s) = {} THEN None
    ELSE Some(<<SubSeq(s, 1, Min(SizeSuffixCommas(s)) - 1),
                SizeSuffixAfter(s, Min(SizeSuffixCommas(s)))>>)

\* PluItem::new
PluItem(name, plu_codes, path, alternative_name, characteristics, size) ==
    [name |-> name, plu_codes |-> plu_codes, category_path |-> path,
     alternative_name |-> alternative_name,
     characteristics |-> characteristics, size |-> size]

\* format!("{}, {}", a, b)
WithSuffix(a, b) == a \o <<",", " ">> \o b

\* alt_name.map(|a| format!("{}, {}", a.trim(), size))
AltWithSize(alt, size) ==
    IF alt = None THEN None ELSE Some(WithSuffix(Trim(alt[1]), size))

\* A variant of SizeGroupPush that leaves out `if !codes.is_empty()`.
SizeGroupPushAlways(codes, name1, alt, characteristics, size, path) ==
    <<PluItem(WithSuffix(Trim(name1), size), codes, path,
              AltWithSize(alt, size), characteristics, Some(size))>>

\* The `if !codes.is_empty() { items.push(..) }` of one size group.
SizeGroupPush(codes, name1, alt, characteristics, size, path) ==
    IF codes # <<>>
        THEN <<PluItem(WithSuffix(Trim(name1), size), codes, path,
                       AltWithSize(alt, size), characteristics, Some(size))>>
        ELSE <<>>

\* A variant of SizeSplitPushNamed that gives codes1 to both records.
SizeSplitPushFirstCodes(codes1, codes2, ea, characteristics, size1, size2, path) ==
    SizeGroupPush(codes1, ea[1], ea[2], characteristics, size1, path)
    \o SizeGroupPush(codes1, ea[1], ea[2], characteristics, size2, path)

\* The two pushes of the size-split branch, ea being the result of
\* extract_alternative_name.
SizeSplitPushNamed(codes1, codes2, ea, characteristics, size1, size2, path) ==
    SizeGroupPush(codes1, ea[1], ea[2], characteristics, size1, path)
    \o SizeGroupPush(codes2, ea[1], ea[2], characteristics, size2, path)

\* The same, ec being the result of extract_characteristics.
SizeSplitPush(codes1, codes2, ec, size1, size2, path) ==
    SizeSplitPushNamed(codes1, codes2, extract_alternative_name(ec[1]), ec[2],
                       size1, size2, path)

\* The `if let Some(caps) = re_alt_size_split.captures(content)` branch:
\* the items it pushes.
SizeSplitItems(caps, path) ==
    SizeSplitPush(parse_plu_codes(caps[3]), parse_plu_codes(caps[5]),
                  extract_characteristics(Trim(caps[1])),
                  normalize_size(caps[2]), normalize_size(caps[4]), path)

\* A variant of StandardPushSized that leaves the size suffix in the name.
StandardPushKeepsSuffix(codes, final_name, size_caps, alt, characteristics, path) ==
    IF size_caps # None
        THEN <<PluItem(final_name, codes, path, alt, characteristics,
                       Some(normalize_size(size_caps[1][2])))>>
        ELSE <<PluItem(final_name, codes, path, alt, characteristics, None)>>

\* my_final_name and size, from the captures of re_size_suffix (or None).
StandardPushSized(codes, final_name, size_caps, alt, characteristics, path) ==
    IF size_caps # None
        THEN <<PluItem(Trim(size_caps[1][1]), codes, path, alt, characteristics,
                       Some(normalize_size(size_caps[1][2])))>>
        ELSE <<PluItem(final_name, codes, path, alt, characteristics, None)>>

\* The push of the standard branch, ea being the result of
\* extract_alternative_name.
StandardPushNamed(codes, ea, characteristics, path) ==
    StandardPushSized(codes, ea[1], ReSizeSuffixCaptures(ea[1]), ea[2],
                      characteristics, path)

\* The same, ec being the result of extract_characteristics.
StandardPush(codes, ec, path) ==
    StandardPushNamed(codes, extract_alternative_name(ec[1]), ec[2], path)

\* A variant of StandardPushCodes that leaves out `if !codes.is_empty()`.
StandardPushCodesAlways(codes, name_part, path) ==
    StandardPush(codes, extract_characteristics(name_part), path)

\* The `if !codes.is_empty()` of the standard branch.
StandardPushCodes(codes, name_part, path) ==
    IF codes # <<>>
        THEN StandardPush(codes, extract_characteristics(name_part), path)
        ELSE <<>>

\* The `else if let Some(caps) = re_standard.captures(content)` branch:
\* the items it pushes.
StandardItems(caps, path) ==
    StandardPushCodes(parse_plu_codes(caps[2]), Trim(caps[1]), path)

RetailerMarker == Chars("retailer assigned")

\* Result<T, String>
Ok(v)  == [tag |-> "Ok", val |-> v]
Err(e) == [tag |-> "Err", val |-> e]

\* What process_item_line does: the Result it returns and the items it
\* pushes, in their order.
Outcome(result, pushed) == [ret |-> result, pushed |-> pushed]

\* A variant of ItemLinePatterns that returns Err for a content no pattern
\* takes.
ItemLinePatternsOrErr(split, std, path) ==
    IF split # None THEN Outcome(Ok(TRUE), SizeSplitItems(split[1], path))
    ELSE IF std # None THEN Outcome(Ok(TRUE), StandardItems(std[1], path))
    ELSE Outcome(Err("no pattern"), <<>>)

\* The if / else-if chain over the two patterns, given their captures.
ItemLinePatterns(split, std, path) ==
    IF split # None THEN Outcome(Ok(TRUE), SizeSplitItems(split[1], path))
    ELSE IF std # None THEN Outcome(Ok(TRUE), StandardItems(std[1], path))
    ELSE Outcome(Ok(FALSE), <<>>)

\* A variant of process_item_line that leaves out the test of the marker.
ProcessItemLineNoMarker(content, path) ==
    ItemLinePatterns(ReSizeSplitCaptures(content), ReStandardCaptures(content),
                     path)

process_item_line(content, path) ==
    IF Contains(content, RetailerMarker)
        THEN Outcome(Ok(TRUE), <<>>)
        ELSE ItemLinePatterns(ReSizeSplitCaptures(content),
                              ReStandardCaptures(content), path)

(***************************************************************************)
(* parse_plu_text: the line patterns                                       *)
(***************************************************************************)
\* The class [a-zA-Z /&'-] of re_toplevel.
TopLevelClass == Upper \cup Lower \cup {" ", "/", "&", "'", "-"}

\* re_toplevel: ^[A-Z][a-zA-Z /&'-]+$
ReTopLevelIsMatch(s) ==
    /\ Len(s) >= 2
    /\ s[1] \in Upper
    /\ \A i \in 2..Len(s) : s[i] \in TopLevelClass

\* re_item1: ^U+2022\s+(.*)$ -- the capture <<1>>, or None.
ReItem1Captures(s) ==
    LET e == SkipSet(s, 2, WhiteSpace)
    IN  IF Len(s) >= 2 /\ s[1] = Bullet /\ e > 2
            THEN Some(<<From(s, e)>>)
            ELSE None

\* re_item2: ^\s{2,}o\s+(.*)$ -- the capture <<1>>, or None.
ReItem2Captures(s) ==
    LET o == SkipSet(s, 1, WhiteSpace)
        e == SkipSet(s, o + 1, WhiteSpace)
    IN  IF o >= 3 /\ o <= Len(s) /\ s[o] = "o" /\ e > o + 1
            THEN Some(<<From(s, e)>>)
            ELSE None

\* The `if` at the head of the loop body: the lines that are skipped.
IsSkippedLine(trimmed_line) ==
    \/ trimmed_line = <<>>
    \/ StartsWith(trimmed_line, Chars("no listing"))
    \/ StartsWith(trimmed_line, Chars("all commodities"))

\* The condition of the top-level branch.
IsTopLevel(trimmed_line) ==
    /\ ReTopLevelIsMatch(trimmed_line)
    /\ ~StartsWith(trimmed_line, <<Bullet>>)
    /\ ~Contains(trimmed_line, <<":">>)

\* Which branch of the if / else-if chain takes the line.
BranchOf(line, trimmed_line) ==
    IF IsSkippedLine(trimmed_line) THEN "skip"
    ELSE IF IsTopLevel(trimmed_line) THEN "toplevel"
    ELSE IF ReItem1Captures(line) # None THEN "item1"
    ELSE IF ReItem2Captures(line) # None THEN "item2"
    ELSE "other"

Branch(line) == BranchOf(line, Trim(line))

\* A variant of PopBackTo that pops nothing.
PopBackNothing(path, n) == path

\* `while category_path.len() > n { category_path.pop_back(); }`
PopBackTo(path, n) == IF Len(path) > n THEN SubSeq(path, 1, n) ELSE path

\* One entry of stderr: the index of the line and what was reported.
Report(i, kind) == [line |-> i, kind |-> kind]

\* The eprintln! of the loop body's last branch, for a line no pattern took.
UnprocessedReports(i, trimmed_line, was_processed) ==
    IF /\ ~was_processed
       /\ ~ReTopLevelIsMatch(trimmed_line)
       /\ ~Contains(trimmed_line, RetailerMarker)
       /\ trimmed_line # <<>>
        THEN IF /\ ~StartsWith(trimmed_line, <<Bullet>>)
                /\ ~StartsWith(trimmed_line, <<"o">>)
                /\ \/ StartsWith(trimmed_line, <<"[">>)
                   \/ EndsWith(trimmed_line, <<"]">>)
                 THEN <<Report(i, "multiline_info")>>
             ELSE IF ~Contains(trimmed_line, <<":">>)
                 THEN <<Report(i, "unprocessed")>>
             ELSE <<>>
        ELSE <<>>

OtherLineReports(i, line, was_processed) ==
    UnprocessedReports(i, Trim(line), was_processed)

\* The DEBUG eprintln! at the head of the first-level branch.
DebugItemReports(i, content) ==
    IF \/ StartsWith(content, Chars("Mickey Lee"))
       \/ StartsWith(content, Chars("Mini, seedless"))
        THEN <<Report(i, "debug_item")>>
        ELSE <<>>

(***************************************************************************)
(* parse_plu_text: one action for each way through the loop body           *)
(***************************************************************************)
AtLine == pc = "loop" /\ idx <= Len(text)

\* `let content = caps.get(1).unwrap().as_str().trim();` of the two bullet branches
Item1Content(line) == Trim(ReItem1Captures(line)[1][1])
Item2Content(line) == Trim(ReItem2Captures(line)[1][1])

\* A variant of CallItemLine that puts the new records before the others.
CallItemLinePrepend(content, path, reports) ==
    \E r \in {process_item_line(content, path)} :
        /\ items' = r.pushed \o items
        /\ origin' = [k \in 1..Len(r.pushed) |-> idx] \o origin
        /\ category_path' = path
        /\ diag' = diag \o reports
        /\ processed' = r.ret.val
        /\ idx' = idx + 1
        /\ UNCHANGED <<ret, pc, shape, text>>

\* The call of process_item_line and the `?` applied to its result.
CallItemLine(content, path, reports) ==
    \E r \in {process_item_line(content, path)} :
        /\ items' = items \o r.pushed
        /\ origin' = origin \o [k \in 1..Len(r.pushed) |-> idx]
        /\ category_path' = path
        /\ diag' = diag \o reports
        /\ IF r.ret.tag = "Err"
               THEN /\ ret' = r.ret
                    /\ pc' = "done"
                    /\ UNCHANGED <<idx, processed>>
               ELSE /\ processed' = r.ret.val
                    /\ idx' = idx + 1
                    /\ UNCHANGED <<ret, pc>>
        /\ UNCHANGED <<shape, text>>

\* A blank line or a boilerplate line: `continue`.
SkipLine ==
    /\ AtLine
    /\ Branch(text[idx]) = "skip"
    /\ idx' = idx + 1
    /\ UNCHANGED <<shape, text, items, category_path, processed, diag, origin, ret, pc>>

\* A variant of TopLevelLine that leaves out `category_path.clear()`.
TopLevelLineKeepsPath ==
    /\ AtLine
    /\ Branch(text[idx]) = "toplevel"
    /\ category_path' = Append(category_path, Trim(text[idx]))
    /\ processed' = TRUE
    /\ idx' = idx + 1
    /\ UNCHANGED <<shape, text, items, diag, origin, ret, pc>>

\* A top-level category line.
TopLevelLine ==
    /\ AtLine
    /\ Branch(text[idx]) = "toplevel"
    /\ category_path' = <<Trim(text[idx])>>
    /\ processed' = TRUE
    /\ idx' = idx + 1
    /\ UNCHANGED <<shape, text, items, diag, origin, ret, pc>>

\* A first-level bullet line met while the path is empty: warning, `continue`.
FirstLevelNoParent ==
    /\ AtLine
    /\ Branch(text[idx]) = "item1"
    /\ \E content \in {Item1Content(text[idx])}, path \in {PopBackTo(category_path, 1)} :
           /\ path = <<>>
           /\ category_path' = path
           /\ diag' = diag \o DebugItemReports(idx, content)
                           \o <<Report(idx, "no_parent")>>
    /\ processed' = FALSE
    /\ idx' = idx + 1
    /\ UNCHANGED <<shape, text, items, origin, ret, pc>>

\* The DEBUG eprintln! of the header branch.
DebugHeaderReports(i, sub_cat_name) ==
    IF sub_cat_name = Chars("Watermelon")
        THEN <<Report(i, "debug_watermelon")>>
        ELSE <<>>

\* A variant of SubCatName that leaves the colons in the label.
SubCatNameWithColon(content) == Trim(content)

\* `content.trim_end_matches(':').trim()`
SubCatName(content) == Trim(TrimEndMatches(content, ":"))

\* A first-level bullet line that ends with ':' : a sub-category header.
FirstLevelHeader ==
    /\ AtLine
    /\ Branch(text[idx]) = "item1"
    /\ \E content \in {Item1Content(text[idx])}, path \in {PopBackTo(category_path, 1)} :
           /\ path # <<>>
           /\ EndsWith(content, <<":">>)
           /\ \E sub_cat_name \in {SubCatName(content)} :
                 /\ category_path' = Append(path, sub_cat_name)
                 /\ diag' = diag \o DebugItemReports(idx, content)
                                 \o DebugHeaderReports(idx, sub_cat_name)
    /\ processed' = TRUE
    /\ idx' = idx + 1
    /\ UNCHANGED <<shape, text, items, origin, ret, pc>>

\* A variant of FirstLevelItem that leaves out the pops before the call.
FirstLevelItemNoTrim ==
    /\ AtLine
    /\ Branch(text[idx]) = "item1"
    /\ \E content \in {Item1Content(text[idx])}, path \in {category_path} :
           /\ path # <<>>
           /\ ~EndsWith(content, <<":">>)
           /\ CallItemLine(content, path, DebugItemReports(idx, content))

\* Any other first-level bullet line: an item line at the top-level path.
FirstLevelItem ==
    /\ AtLine
    /\ Branch(text[idx]) = "item1"
    /\ \E content \in {Item1Content(text[idx])}, path \in {PopBackTo(category_path, 1)} :
           /\ path # <<>>
           /\ ~EndsWith(content, <<":">>)
           /\ CallItemLine(content, path, DebugItemReports(idx, content))

\* The warnings of `while category_path.len() > 2`, one for each pop.
TooDeepReports(i, path) ==
    [k \in 1..(IF Len(path) > 2 THEN Len(path) - 2 ELSE 0) |-> Report(i, "too_deep")]

\* A second-level bullet line met while the path is not of length 2.
SecondLevelSkipped ==
    /\ AtLine
    /\ Branch(text[idx]) = "item2"
    /\ \E path \in {PopBackTo(category_path, 2)} :
           /\ Len(path) # 2
           /\ category_path' = path
           /\ diag' = diag \o TooDeepReports(idx, category_path)
                           \o <<Report(idx, "bad_depth")>>
    /\ processed' = FALSE
    /\ idx' = idx + 1
    /\ UNCHANGED <<shape, text, items, origin, ret, pc>>

\* A variant of SecondLevelItem that takes the line under any category.
SecondLevelItemAnyDepth ==
    /\ AtLine
    /\ Branch(text[idx]) = "item2"
    /\ \E content \in {Item2Content(text[idx])}, path \in {PopBackTo(category_path, 2)} :
           /\ Len(path) >= 1
           /\ CallItemLine(content, path, TooDeepReports(idx, category_path))

\* A second-level bullet line under a sub-category: an item line.
SecondLevelItem ==
    /\ AtLine
    /\ Branch(text[idx]) = "item2"
    /\ \E content \in {Item2Content(text[idx])}, path \in {PopBackTo(category_path, 2)} :
           /\ Len(path) = 2
           /\ CallItemLine(content, path, TooDeepReports(idx, category_path))

\* A line that none of the three patterns takes.
OtherLine ==
    /\ AtLine
    /\ Branch(text[idx]) = "other"
    /\ diag' = diag \o OtherLineReports(idx, text[idx], FALSE)
    /\ processed' = FALSE
    /\ idx' = idx + 1
    /\ UNCHANGED <<shape, text, items, category_path, origin, ret, pc>>

\* The end of the loop: Ok(PluCollection { items }).
Finish ==
    /\ pc = "loop"
    /\ idx > Len(text)
    /\ ret' = Ok(items)
    /\ pc' = "done"
    /\ UNCHANGED <<shape, text, idx, items, category_path, processed, diag, origin>>

(***************************************************************************)
(* The inputs of parse_plu_text                                            *)
(***************************************************************************)
MaxLines == 4

\* All sequences over S of length at most n.
BoundedSeq(S, n) == UNION {[1..k -> S] : k \in 0..n}

\* A line of the input with what it is meant to be: its kind and, for a
\* top-level category or a sub-category header, its label.
Line(kind, label, line) == [kind |-> kind, label |-> label, line |-> line]

\* "<bullet> content" and "   o content"
Item1Line(content) == <<Bullet, " ">> \o content
Item2Line(content) == Chars("   o ") \o content

AkaneContent   == Chars("Akane, small (4098), large (4099)")
MickeyContent  == Chars("Mickey Lee / Sugarbaby (4331)")
MiniContent    == Chars("Mini, seedless [3") \o <<UHyphen>> \o Chars("7 pounds] (3421)")
CantaloupeContent ==
    Chars("Cantaloupe / Muskmelon, small (4049, 43181), large (4050, 43191)")
RetailerRangeContent ==
    Chars("retailer assigned (4193") \o <<UHyphen>> \o Chars("4217)")

Apple      == Line("top", Chars("Apple"), Chars("Apple"))
Melon      == Line("top", Chars("Melon"), Chars("Melon"))
Watermelon == Line("header", Chars("Watermelon"), Item1Line(Chars("Watermelon:")))
Akane      == Line("item1", <<>>, Item1Line(AkaneContent))
Mickey     == Line("item2", <<>>, Item2Line(MickeyContent))
Blank      == Line("blank", <<>>, <<>>)
SeeNote    == Line("other", <<>>, Chars("see note"))

\* The lines every text of at most MaxLines lines is drawn from.
CorePool == {Apple, Melon, Watermelon, Akane, Mickey, Blank, SeeNote}

\* More lines, each put in a few contexts.
ExtraPool == {
    Line("item1", <<>>, Item1Line(Chars("Foo"))),
    Line("item2", <<>>, Item2Line(Chars("Foo"))),
    Line("item1", <<>>, Item1Line(Chars("Alfalfa Sprouts (4514)"))),
    Line("item1", <<>>, Item1Line(Chars("Foo, small (4080)"))),
    Line("item1", <<>>, Item1Line(Chars("Foo (4193-4217)"))),
    Line("item1", <<>>, Item1Line(Chars("Foo, small (1-2), large (3-4)"))),
    Line("item1", <<>>, Item1Line(Chars("Foo, small (1-2), large (4099)"))),
    Line("item1", <<>>, Item1Line(RetailerRangeContent)),
    Line("item1", <<>>, Item1Line(Chars("retailer assigned (4500)"))),
    Line("item1", <<>>, Item1Line(MiniContent)),
    Line("item2", <<>>, Item2Line(MiniContent)),
    Line("item2", <<>>, Item2Line(AkaneContent)),
    Line("item2", <<>>, Chars("\t\to\tAlfalfa Sprouts (4514)")),
    Line("header", <<>>, Item1Line(<<":">>)),
    Line("header", Chars("Sub"), Item1Line(Chars("Sub ::"))),
    Line("header", Chars("retailer assigned"), Item1Line(Chars("retailer assigned:"))),
    Line("indented", <<>>, <<" ">> \o Item1Line(Chars("Watermelon:"))),
    Line("indented", <<>>, <<" ">> \o Item1Line(AkaneContent)),
    Line("top", Chars("Alfalfa Sprouts"), Chars("  Alfalfa Sprouts ")),
    Line("blank", <<>>, Chars("   ")),
    Line("boiler", <<>>, Chars("no listing")),
    Line("boiler", <<>>, Chars(" all commodities listed")),
    Line("other", <<>>, Chars("[3-7 pounds]")),
    Line("other", <<>>, Chars("Note: see above")),
    Line("other", <<>>, Chars("retailer assigned")),
    Line("other", <<>>, Chars("o Foo (4080)")),
    Line("other", <<>>, <<Bullet>> \o Chars("Foo (4080)")),
    Line("other", <<>>, Chars("A")) }

\* The texts of the tests of src/src/utils/parser.rs.
TestAlfalfa    == <<Line("top", Chars("Alfalfa Sprouts"), Chars("Alfalfa Sprouts")),
                    Line("item1", <<>>, Item1Line(Chars("Alfalfa Sprouts (4514)")))>>
TestAkane      == <<Apple, Akane>>
TestAurora     == <<Apple, Line("item1", <<>>, Item1Line(
                      Chars("Aurora / Southern Rose, small (3001), large (3290)")))>>
TestCantaloupe == <<Melon, Line("item1", <<>>, Item1Line(CantaloupeContent))>>
TestWatermelonMini ==
    <<Melon,
      Line("indented", <<>>, <<" ">> \o Item1Line(CantaloupeContent)),
      Line("indented", <<>>, <<" ">> \o Item1Line(Chars("Watermelon:"))),
      Line("item2", <<>>, Item2Line(MickeyContent)),
      Line("item2", <<>>, Item2Line(MiniContent)),
      Line("blank", <<>>, <<" ">>)>>
TestRetailerRange == <<Apple, Line("item1", <<>>, Item1Line(RetailerRangeContent))>>
TestFootnote   == <<Line("top", Chars("Asparagus"), Chars("Asparagus")),
                    Line("item1", <<>>, Item1Line(
                      Chars("Green, small (4080), large (4521), bunch (33923)")))>>
TestFootnoteSimple ==
                  <<Line("top", Chars("Asparagus"), Chars("Asparagus")),
                    Line("item1", <<>>, Item1Line(
                      Chars("White, small (4522), large (4523)")))>>
TestFootnoteBunch ==
                  <<Line("top", Chars("Asparagus"), Chars("Asparagus")),
                    Line("item1", <<>>, Item1Line(Chars("Green, bunch (33923)")))>>
TestMultiCode  == <<Apple, Line("item1", <<>>, Item1Line(
                      Chars("Golden Delicious, small (4021, 41361,2), large (4020, 41371,2)")))>>

TestTexts == {TestAlfalfa, TestAkane, TestAurora, TestCantaloupe,
              TestWatermelonMini, TestRetailerRange, TestFootnote,
              TestFootnoteSimple, TestFootnoteBunch, TestMultiCode}

\* What comes before and after a line of ExtraPool.
Contexts == {<<>>, <<Apple>>, <<Apple, Watermelon>>}
Tails    == {<<>>, <<Mickey>>, <<Akane>>}

Texts ==
    BoundedSeq(CorePool, MaxLines)
    \cup {c \o <<x>> \o t : c \in Contexts, x \in ExtraPool, t \in Tails}
    \cup TestTexts

(***************************************************************************)
(* parse_plu_text                                                          *)
(***************************************************************************)
Init ==
    /\ \E t \in Texts :
          /\ shape = [i \in 1..Len(t) |-> [kind |-> t[i].kind, label |-> t[i].label]]
          /\ text = [i \in 1..Len(t) |-> t[i].line]
    /\ idx = 1
    /\ items = <<>>
    /\ category_path = <<>>
    /\ processed = FALSE
    /\ diag = <<>>
    /\ origin = <<>>
    /\ ret = None
    /\ pc = "loop"

Next ==
    \/ SkipLine
    \/ TopLevelLine
    \/ FirstLevelNoParent
    \/ FirstLevelHeader
    \/ FirstLevelItem
    \/ SecondLevelSkipped
    \/ SecondLevelItem
    \/ OtherLine
    \/ Finish

Spec == Init /\ [][Next]_vars

(***************************************************************************)
(* Properties of parse_plu_text (under Spec)                               *)
(***************************************************************************)
\* The lines of the input that the loop has been through.
Done(i) == i \in 1..(idx - 1)

\* The records that line i gave, and what was reported for it.
RecordsOf(i) == {k \in 1..Len(items) : origin[k] = i}
ReportsOf(i) == {d \in 1..Len(diag) : diag[d].line = i}

\* The top-level category lines before line i.
TopsBefore(i) == {j \in 1..(i - 1) : shape[j].kind = "top"}

\* The label of the most recent top-level category line before line i.
TopBefore(i) == shape[Max(TopsBefore(i))].label

\* C1: after any sequence of lines, no record of the output has an empty
\* code list.
C1_NoEmptyCodeList ==
    \A k \in 1..Len(items) : items[k].plu_codes # <<>>

\* A dual-size line with one group that is a range has given one record,
\* and a single-code line whose codes are a range has given none.
C1_EmptyGroupDropped ==
    /\ pc = "done"
    /\ \E i \in 1..Len(text) :
          \/ /\ text[i] = Item1Line(Chars("Foo, small (1-2), large (4099)"))
             /\ Cardinality(RecordsOf(i)) = 1
          \/ /\ text[i] = Item1Line(Chars("Foo (4193-4217)"))
             /\ RecordsOf(i) = {}
             /\ items # <<>>

C3_AlwaysOk ==
    IF pc = "done"
        THEN /\ ret.tag = "Ok"
             /\ ret.val = items
             /\ idx = Len(text) + 1
        ELSE /\ pc = "loop"
             /\ ret = None

\* A record has been given by a line that comes after a reported line, and
\* the result is Ok.
C3_RecordAfterReportedLine ==
    /\ pc = "done"
    /\ ret.tag = "Ok"
    /\ \E d \in 1..Len(diag), k \in 1..Len(items) : diag[d].line < origin[k]

\* The first-level bullet lines, headers and top-level lines before line i.
PathLinesBefore(i) ==
    {j \in 1..(i - 1) : shape[j].kind \in {"top", "header", "item1"}}

\* Line i follows a sub-category header (no other first-level bullet line and
\* no top-level line in between) that itself has a top-level category.
UnderHeader(i) ==
    /\ PathLinesBefore(i) # {}
    /\ shape[Max(PathLinesBefore(i))].kind = "header"
    /\ TopsBefore(Max(PathLinesBefore(i))) # {}

KindsOf(sh) == [i \in 1..Len(sh) |-> sh[i].kind]

IsWatermelonMini ==
    KindsOf(shape) = <<"top", "indented", "indented", "item2", "item2", "blank">>

\* C10: first-level bullet lines with white space before the bullet are
\* handled like the others: for a top-level line, an indented dual-size item
\* line, an indented header line and two second-level item lines, 4 records
\* are returned, those of the second-level lines with the path
\* <<top category, header label>>.
C10_IndentedBulletsHandled ==
    (pc = "done" /\ IsWatermelonMini)
        => /\ Len(items) = 4
           /\ \A i \in {4, 5} : \A k \in RecordsOf(i) :
                 items[k].category_path = <<Chars("Melon"), Chars("Watermelon")>>

\* The text of test_parse_watermelon_mini gives no record at all: the two
\* indented lines are reported or passed over, the two second-level lines
\* are skipped.
C10_WatermelonMiniGivesNothing ==
    /\ pc = "done"
    /\ IsWatermelonMini
    /\ items = <<>>
    /\ \A i \in {4, 5} : \E d \in ReportsOf(i) : diag[d].kind = "bad_depth"

\* a is a prefix of b
IsPrefix(a, b) == Len(a) <= Len(b) /\ SubSeq(b, 1, Len(a)) = a

\* Line i is the first-level or second-level Akane line.
IsAkaneLine(i) == text[i] \in {Item1Line(AkaneContent), Item2Line(AkaneContent)}

\* The records so far are in the order of the lines that gave them.
InEncounterOrder ==
    \A k \in 1..(Len(items) - 1) : origin[k] <= origin[k + 1]

\* The records of a dual-size line: the first size group before the second.
FirstGroupFirst ==
    \A i \in 1..Len(text) :
        (IsAkaneLine(i) /\ RecordsOf(i) # {})
            => \E k \in 1..(Len(items) - 1) :
                  /\ RecordsOf(i) = {k, k + 1}
                  /\ items[k].name = Chars("Akane, small")
                  /\ items[k + 1].name = Chars("Akane, large")

\* A first-level Akane line under a top-level category gives its two records
\* whatever the lines before it gave.
NothingDeduplicated ==
    \A i \in 1..Len(text) :
        (Done(i) /\ IsAkaneLine(i) /\ shape[i].kind = "item1" /\ TopsBefore(i) # {})
            => Cardinality(RecordsOf(i)) = 2

\* C11: the output is append-only and in encounter order: at every step the
\* records so far are a prefix of those after the step and of the final
\* result, the records of an earlier line precede those of a later line, the
\* first size group's record precedes the second's, and nothing is removed,
\* reordered or deduplicated.
C11_AppendOnlyInOrder ==
    /\ [](InEncounterOrder /\ FirstGroupFirst /\ NothingDeduplicated)
    /\ [](pc = "done" => ret.val = items)
    /\ [][IsPrefix(items, items')]_vars

\* Two identical dual-size lines have given four records, two by two equal.
C11_TwoEqualLinesFourRecords ==
    /\ pc = "done"
    /\ Len(text) = 3
    /\ text[2] = text[3]
    /\ Len(items) = 4
    /\ items[1] = items[3]
    /\ items[2] = items[4]
    /\ origin = <<2, 2, 3, 3>>

\* C13: after every line the hierarchy path has length 0, 1 or 2; it is
\* empty only while no top-level category line has been seen; the first
\* element of a path of length 2 is not empty.
C13_PathInvariant ==
    /\ Len(category_path) \in {0, 1, 2}
    /\ category_path = <<>> <=> TopsBefore(idx) = {}
    /\ Len(category_path) = 2 => category_path[1] # <<>>

\* The path has length 2 for the second time: two headers have been seen
\* under a top-level category.
C13_SecondHeaderPushed ==
    /\ Len(category_path) = 2
    /\ Cardinality({i \in 1..(idx - 1) : shape[i].kind = "header"
                                          /\ TopsBefore(i) # {}}) = 2

\* The path trimmed to length at most 1.
TrimmedToTop(path) == IF path = <<>> THEN <<>> ELSE <<path[1]>>

\* What the line of kind k and label l makes of the path.
PathAfter(k, l, path) ==
    CASE k = "top"    -> category_path' = <<l>>
      [] k = "item1"  -> category_path' = TrimmedToTop(path)
      [] k = "header" -> TrimmedToTop(category_path') = TrimmedToTop(path)
      [] OTHER        -> category_path' = path

\* C14: a top-level line replaces the path by <<label>>; a first-level
\* bullet line first trims the path to length at most 1, whether or not it
\* gives a record; every other line (second-level bullet lines processed or
\* skipped, blank lines, boilerplate, unrecognized lines) leaves the path as
\* it is.
C14_PathTransitions ==
    [][IF pc = "loop" /\ idx <= Len(text)
           THEN PathAfter(shape[idx].kind, shape[idx].label, category_path)
           ELSE category_path' = category_path]_vars

\* A first-level item line after a header has ended the header's scope, and
\* the second-level item line after it has been skipped.
C14_ScopeEndedByItemLine ==
    /\ pc = "done"
    /\ Len(text) = 4
    /\ KindsOf(shape) = <<"top", "header", "item1", "item2">>
    /\ Len(category_path) = 1
    /\ RecordsOf(3) # {}
    /\ RecordsOf(4) = {}
    /\ \E d \in ReportsOf(4) : diag[d].kind = "bad_depth"

\* The line the loop has just been through is a sub-category header line.
AfterHeader == idx > 1 /\ shape[idx - 1].kind = "header"

\* C15 as stated: after every first-level bullet line whose content ends
\* with a colon the path has length 2, whatever the path was before the
\* line, also when no top-level category line has been seen yet.
C15_HeaderAlwaysPushed ==
    AfterHeader => Len(category_path) = 2

\* C15, amended: after such a line that follows a top-level category line,
\* the path is <<top category, label>>, the label being the content without
\* its colons; when no top-level category line has been seen, the line is
\* passed over with a warning and the path stays empty.
C15_HeaderPushedUnderTop ==
    AfterHeader
        => IF TopsBefore(idx - 1) # {}
               THEN category_path = <<TopBefore(idx - 1), shape[idx - 1].label>>
               ELSE /\ category_path = <<>>
                    /\ \E d \in ReportsOf(idx - 1) : diag[d].kind = "no_parent"
                    /\ RecordsOf(idx - 1) = {}

\* The header "Sub ::" has been pushed under Apple as "Sub".
C15_ColonsStrippedAndPushed ==
    /\ AfterHeader
    /\ text[idx - 1] = Item1Line(Chars("Sub ::"))
    /\ category_path = <<Chars("Apple"), Chars("Sub")>>

\* Line i is a bullet line whose content, "Foo", is taken by neither the
\* dual-size nor the single-code pattern.
IsUnmatchedBulletLine(i) ==
    text[i] \in {Item1Line(Chars("Foo")), Item2Line(Chars("Foo"))}

\* Line i is neither blank, nor boilerplate, nor a hierarchy or item line.
IsUnrecognizedLine(i) == shape[i].kind \in {"other", "indented"}

\* C16: every line that is not blank, not boilerplate and not handled as a
\* hierarchy or item line is reported with a diagnostic; in particular a
\* first-level or second-level bullet line whose content matches neither
\* pattern (process_item_line returns false) is reported by the caller.
C16_UnrecognizedLinesReported ==
    \A i \in 1..Len(text) :
        (Done(i) /\ (IsUnrecognizedLine(i) \/ IsUnmatchedBulletLine(i)))
            => ReportsOf(i) # {}

\* The line "Foo" with a bullet has been given to process_item_line under
\* Apple, which returned false, and nothing has been reported for it.
C16_UnmatchedBulletLineSilent ==
    /\ idx = 3
    /\ text[1] = Chars("Apple")
    /\ text[2] = Item1Line(Chars("Foo"))
    /\ processed = FALSE
    /\ category_path = <<Chars("Apple")>>
    /\ ReportsOf(2) = {}

\* C18: every element of the category_path of every record is a non-empty
\* label, also the label that a header line whose content is only ":" pushes.
C18_NoEmptyLabel ==
    \A k \in 1..Len(items) :
        \A j \in 1..Len(items[k].category_path) :
            items[k].category_path[j] # <<>>

\* The header whose content is ":" has pushed the empty label, and the
\* second-level line after it has given a record under <<Apple, "">>.
C18_RecordUnderEmptyLabel ==
    /\ pc = "done"
    /\ text = <<Chars("Apple"), Item1Line(<<":">>), Item2Line(MickeyContent)>>
    /\ Len(items) = 1
    /\ items[1].category_path = <<Chars("Apple"), <<>>>>

(***************************************************************************)
(* parse_plu_codes on its own: the code texts and the specification        *)
(***************************************************************************)
MaxRuns == 3

\* The runs of digits a code text is built from.
RunPool == {Chars("4021"), Chars("41361"), Chars("41371"), Chars("33923"),
            Chars("43181"), Chars("2"), Chars("413612"), Chars("007"),
            Chars("2147483647"), Chars("4294967296"), Chars("99999999999")}

\* What stands between two runs.
SepPool == {<<",">>, <<",", " ">>, <<"-">>, <<UHyphen>>, <<Sup1, ",", " ">>}

\* A code text as it is built: its runs, the separator between them, whether
\* white space surrounds them and whether the parentheses are still there.
CodeShape(runs, sep, pad, wrap) ==
    [runs |-> runs, sep |-> sep, pad |-> pad, wrap |-> wrap]

CodeShapes ==
    {CodeShape(runs, sep, pad, wrap) :
        runs \in BoundedSeq(RunPool, MaxRuns), sep \in SepPool,
        pad \in BOOLEAN, wrap \in BOOLEAN}

RECURSIVE JoinRuns(_, _)
JoinRuns(runs, sep) ==
    IF runs = <<>> THEN <<>>
    ELSE IF Len(runs) = 1 THEN runs[1]
    ELSE runs[1] \o sep \o JoinRuns(Tail(runs), sep)

Padded(s, pad)   == IF pad THEN <<" ">> \o s \o <<" ">> ELSE s
Wrapped(s, wrap) == IF wrap THEN <<"(">> \o s \o <<")">> ELSE s

\* The text of a code shape.
CodeText(sh) == Wrapped(Padded(JoinRuns(sh.runs, sh.sep), sh.pad), sh.wrap)

InitCodes ==
    /\ \E sh \in CodeShapes :
          /\ shape = sh
          /\ text = <<CodeText(sh)>>
    /\ idx = 1
    /\ items = <<>>
    /\ category_path = <<>>
    /\ processed = FALSE
    /\ diag = <<>>
    /\ origin = <<>>
    /\ ret = None
    /\ pc = "codes"

\* The call parse_plu_codes(text).
ParseCodes ==
    /\ pc = "codes"
    /\ ret' = parse_plu_codes(text[1])
    /\ pc' = "done"
    /\ UNCHANGED <<shape, text, idx, items, category_path, processed, diag, origin>>

NextCodes == ParseCodes

SpecCodes == InitCodes /\ [][NextCodes]_vars

(***************************************************************************)
(* process_item_line on its own: the contents and the specification        *)
(***************************************************************************)
\* A name, and whether it holds the marker of the retailer-assigned codes.
Name(t, marker) == [text |-> t, marker |-> marker]

NamePool == {Name(Chars("Akane"), FALSE),
             Name(Chars("Golden Delicious"), FALSE),
             Name(Chars("Mini, seedless"), FALSE),
             Name(Chars("Green, bunch"), FALSE),
             Name(Chars("retailer assigned"), TRUE),
             Name(Chars("Foo retailer assigned blocks"), TRUE)}

\* The alternative name after the '/', if there is one.
AltPool == {None, Some(Chars("Southern Rose"))}

\* A bracketed segment: its text, the characteristics it lists, and whether
\* it stands before the name or after it.
Bracketed(t, pieces, front) == [text |-> t, pieces |-> pieces, front |-> front]

BracketPool ==
    {None,
     Some(Bracketed(<<"[", "3", UHyphen, "7">> \o Chars(" pounds]"),
                    << <<"3", UHyphen, "7">> \o Chars(" pounds") >>, FALSE)),
     Some(Bracketed(Chars("[seedless, 3-7 pounds ]"),
                    <<Chars("seedless"), Chars("3-7 pounds")>>, FALSE)),
     Some(Bracketed(Chars("[red]"), <<Chars("red")>>, TRUE))}

\* The text between the parentheses and the codes it stands for.
Codes(t, codes) == [text |-> t, codes |-> codes]

CodesPool == {Codes(Chars("4098"), <<4098>>),
              Codes(Chars("4049, 43181"), <<4049, 43181>>),
              Codes(Chars("4021, 41361,2"), <<4021, 4136>>),
              Codes(Chars("3421"), <<3421>>),
              Codes(Chars("33923"), <<3392>>),
              Codes(<<"4", "3", "3", "1", Sup1>>, <<4331>>),
              Codes(Chars("4193-4217"), <<>>),
              Codes(Chars("4193") \o <<UHyphen>> \o Chars("4217"), <<>>)}

\* The size words of the two groups of a dual-size line.
SizePairs == {<<Chars("small"), Chars("large")>>,
              <<Chars("medium"), Chars("jumbo")>>,
              <<Chars("extra large"), Chars("small")>>}

\* The size suffix of a single-code line, if there is one.
SuffixPool == {None, Some(Chars("small")), Some(Chars("extra large"))}

\* The category paths process_item_line is called with.
PathPool == {<<Chars("Apple")>>, <<Chars("Melon"), Chars("Watermelon")>>}

\* The part of a content that all shapes share.
ItemBase(primary, alt, bracket, tight) ==
    [primary |-> primary, alt |-> alt, bracket |-> bracket, tight |-> tight]

ItemBases ==
    {ItemBase(primary, alt, bracket, tight) :
        primary \in NamePool, alt \in AltPool, bracket \in BracketPool,
        tight \in BOOLEAN}

\* "Base, size1 (codes1), size2 (codes2)"
SplitShape(base, sizes, codes1, codes2) ==
    [kind |-> "split", base |-> base, sizes |-> sizes,
     codes |-> <<codes1, codes2>>, suffix |-> None]

\* "Name (codes)" and "Name, size (codes)"
SingleShape(base, suffix, codes) ==
    [kind |-> "single", base |-> base, sizes |-> <<>>,
     codes |-> <<codes>>, suffix |-> suffix]

\* "Name": no parenthesized codes.
PlainShape(base) ==
    [kind |-> "plain", base |-> base, sizes |-> <<>>, codes |-> <<>>,
     suffix |-> None]

ItemShapes ==
    {SplitShape(base, sizes, codes1, codes2) :
        base \in ItemBases, sizes \in SizePairs,
        codes1 \in CodesPool, codes2 \in CodesPool}
    \cup {SingleShape(base, suffix, codes) :
        base \in ItemBases, suffix \in SuffixPool, codes \in CodesPool}
    \cup {PlainShape(base) : base \in ItemBases}

\* One space, or none in a tight content.
Gap(tight) == IF tight THEN <<>> ELSE <<" ">>

\* "Primary" or "Primary / Alt"
NameText(base) ==
    IF base.alt = None THEN base.primary.text
    ELSE base.primary.text \o Gap(base.tight) \o <<"/">> \o Gap(base.tight)
                           \o base.alt[1]

\* ", size"
SizeText(size, tight) == <<",">> \o Gap(tight) \o size

\* " (codes)"
GroupText(codes, tight) == Gap(tight) \o <<"(">> \o codes.text \o <<")">>

\* The name part with its bracketed segment, t being what follows the name.
WithBracket(base, t) ==
    IF base.bracket = None THEN NameText(base) \o t
    ELSE IF base.bracket[1].front
        THEN base.bracket[1].text \o <<" ">> \o NameText(base) \o t
        ELSE NameText(base) \o t \o <<" ">> \o base.bracket[1].text

\* The content of an item shape.
ItemText(sh) ==
    IF sh.kind = "split"
        THEN WithBracket(sh.base, <<>>)
             \o SizeText(sh.sizes[1], sh.base.tight)
             \o GroupText(sh.codes[1], sh.base.tight)
             \o SizeText(sh.sizes[2], sh.base.tight)
             \o GroupText(sh.codes[2], sh.base.tight)
    ELSE IF sh.kind = "single"
        THEN WithBracket(sh.base, IF sh.suffix = None THEN <<>>
                                  ELSE SizeText(sh.suffix[1], sh.base.tight))
             \o GroupText(sh.codes[1], sh.base.tight)
    ELSE WithBracket(sh.base, <<>>)

InitItem ==
    /\ \E sh \in ItemShapes, path \in PathPool :
          /\ shape = sh
          /\ text = <<ItemText(sh)>>
          /\ category_path = path
    /\ idx = 1
    /\ items = <<>>
    /\ processed = FALSE
    /\ diag = <<>>
    /\ origin = <<>>
    /\ ret = None
    /\ pc = "item"

\* The call process_item_line(content, &category_path, .., &mut items).
ProcessItemLine ==
    /\ pc = "item"
    /\ \E r \in {process_item_line(text[1], category_path)} :
          /\ items' = items \o r.pushed
          /\ origin' = origin \o [k \in 1..Len(r.pushed) |-> idx]
          /\ ret' = r.ret
    /\ pc' = "done"
    /\ UNCHANGED <<shape, text, idx, category_path, processed, diag>>

NextItem == ProcessItemLine

SpecItem == InitItem /\ [][NextItem]_vars

(***************************************************************************)
(* Properties of parse_plu_codes (under SpecCodes)                         *)
(***************************************************************************)
\* The shape digits, one dash, digits.
IsRangeShape(sh) == Len(sh.runs) = 2 /\ sh.sep \in {<<"-">>, <<UHyphen>>}

\* C7: whenever the content inside the parentheses, once the white space
\* around it is trimmed, is digits, one dash (ASCII or U+2010), digits,
\* parse_plu_codes returns the empty sequence -- also when white space
\* surrounds the range, as in "( 4193-4217 )".
C7_RangeGivesNoCodes ==
    (pc = "done" /\ IsRangeShape(shape)) => ret = <<>>

\* A range that white space surrounds, and the codes returned for it.
C7_PaddedRangeGivesCodes ==
    /\ pc = "done"
    /\ IsRangeShape(shape)
    /\ shape.pad
    /\ ret # <<>>

\* The content is scanned for runs of digits when the range rule did not
\* take it.
IsScanned(sh) == ~(IsRangeShape(sh) /\ ~sh.pad)

\* A run that is exactly 5 digits long and starts with 4136, 4137 or 3392.
IsFootnoted(run) ==
    /\ Len(run) = 5
    /\ SubSeq(run, 1, 4) \in {Chars("4136"), Chars("4137"), Chars("3392")}

\* Run i is the one that immediately follows a run cut to 4 digits.
RECURSIVE IsSwallowed(_, _)
IsSwallowed(runs, i) ==
    /\ i > 1
    /\ IsFootnoted(runs[i - 1])
    /\ ~IsSwallowed(runs, i - 1)

\* A run of digits without its leading zeros (one digit is kept).
Canonical(run) == From(run, Min({SkipSet(run, 1, {"0"}), Len(run)}))

\* The run denotes a number that an unsigned 32-bit integer holds.
FitsU32(run) ==
    \/ Len(Canonical(run)) < 10
    \/ Len(Canonical(run)) = 10 /\ DigitsLeq(Canonical(run), Chars("4294967295"))

\* The decimal digits of a number.
RECURSIVE ToDigits(_)
ToDigits(n) ==
    IF n < 10 THEN <<Chars("0123456789")[n + 1]>>
    ELSE ToDigits(n \div 10) \o <<Chars("0123456789")[(n % 10) + 1]>>

DigitsOfAll(codes) == [k \in 1..Len(codes) |-> ToDigits(codes[k])]

\* What run i contributes when every run that is not swallowed is output.
EveryRunOutput(runs, i) ==
    IF IsSwallowed(runs, i) THEN <<>>
    ELSE IF IsFootnoted(runs[i]) THEN <<SubSeq(runs[i], 1, 4)>>
    ELSE <<Canonical(runs[i])>>

\* What run i contributes when a run too large for 32 bits is dropped.
FittingRunOutput(runs, i) ==
    IF FitsU32(runs[i]) THEN EveryRunOutput(runs, i) ELSE <<>>

RECURSIVE AllRunsFrom(_, _)
AllRunsFrom(runs, i) ==
    IF i > Len(runs) THEN <<>>
    ELSE EveryRunOutput(runs, i) \o AllRunsFrom(runs, i + 1)

RECURSIVE FittingRunsFrom(_, _)
FittingRunsFrom(runs, i) ==
    IF i > Len(runs) THEN <<>>
    ELSE FittingRunOutput(runs, i) \o FittingRunsFrom(runs, i + 1)

\* C8 as stated: scanning the runs of digits left to right, a 5-digit run
\* that starts with 4136, 4137 or 3392 is output as its first 4 digits and
\* the run right after it is discarded; every other run is output unchanged,
\* in the order of appearance, duplicates kept.
C8_EveryOtherRunIsOutput ==
    (pc = "done" /\ IsScanned(shape))
        => DigitsOfAll(ret) = AllRunsFrom(shape.runs, 1)

\* C8, amended: the same, except that a run denoting a number larger than
\* u32::MAX is dropped; every other run is output as the number it denotes.
C8_FittingRunsAreOutput ==
    (pc = "done" /\ IsScanned(shape))
        => DigitsOfAll(ret) = FittingRunsFrom(shape.runs, 1)

\* A text with a run cut to 4 digits, the run after it discarded, and a run
\* too large for 32 bits dropped, has been parsed.
C8_FootnoteAndLargeRunParsed ==
    /\ pc = "done"
    /\ shape.runs = <<Chars("41361"), Chars("2"), Chars("99999999999")>>
    /\ shape.sep = <<",">>
    /\ ret = <<4136>>

(***************************************************************************)
(* Properties of process_item_line (under SpecItem)                        *)
(***************************************************************************)
\* The content holds no marker of the retailer-assigned codes.
IsItemShape(sh, kind) == sh.kind = kind /\ ~sh.base.primary.marker

\* The characteristics a shape lists between its brackets.
PiecesOf(base) == IF base.bracket = None THEN <<>> ELSE base.bracket[1].pieces

\* "Alt, size", when the base is "Primary / Alt".
AltOf(base, size) ==
    IF base.alt = None THEN None
    ELSE Some(base.alt[1] \o <<",", " ">> \o size)

\* The fields of a record that C5 is about.
SizeFields(item) ==
    [name |-> item.name, size |-> item.size, plu_codes |-> item.plu_codes,
     category_path |-> item.category_path,
     alternative_name |-> item.alternative_name]

\* The record of size group g of a dual-size shape, if its code list is not
\* empty.
SizeGroupRecord(sh, g, path) ==
    IF sh.codes[g].codes = <<>> THEN <<>>
    ELSE << [name |-> sh.base.primary.text \o <<",", " ">> \o sh.sizes[g],
             size |-> Some(sh.sizes[g]),
             plu_codes |-> sh.codes[g].codes,
             category_path |-> path,
             alternative_name |-> AltOf(sh.base, sh.sizes[g])] >>

C6_RetailerAssignedIgnored ==
    (pc = "done" /\ shape.base.primary.marker)
        => /\ ret = Ok(TRUE)
           /\ items = <<>>

\* "retailer assigned (4193-4217)", with either dash, and a marked line of
\* the dual-size shape with concrete codes have been handled.
C6_MarkedLinesHandled ==
    /\ pc = "done"
    /\ ret = Ok(TRUE)
    /\ items = <<>>
    /\ \/ text[1] = RetailerRangeContent
       \/ text[1] = Chars("retailer assigned (4193-4217)")
       \/ /\ shape.base.primary.marker
          /\ shape.kind = "split"
          /\ shape.codes[1].codes # <<>>

\* C9: a single-code line whose name part holds a bracketed segment gives one
\* record whose characteristics are the pieces of the segment, split at the
\* commas and trimmed, and whose name is the text around the brackets,
\* trimmed (the alternate name and the size suffix taken off it as for every
\* name); a name without brackets gives no characteristics and is unchanged.
C9_BracketedCharacteristics ==
    (pc = "done" /\ IsItemShape(shape, "single") /\ shape.codes[1].codes # <<>>)
        => /\ Len(items) = 1
           /\ items[1].characteristics = PiecesOf(shape.base)
           /\ items[1].name = shape.base.primary.text
           /\ items[1].plu_codes = shape.codes[1].codes

\* "Mini, seedless [3-7 pounds] (3421)" under Melon / Watermelon has given
\* its record.
C9_MiniSeedlessEmitted ==
    /\ pc = "done"
    /\ text[1] = MiniContent
    /\ items = <<PluItem(Chars("Mini, seedless"), <<3421>>,
                         <<Chars("Melon"), Chars("Watermelon")>>, None,
                         << <<"3", UHyphen, "7">> \o Chars(" pounds") >>,
                         None)>>

\* The name of the record ends with ", size", size being its size field.
EndsWithItsSize(item) ==
    EndsWith(item.name, <<",", " ">> \o item.size[1])

C17_SingleCodePattern ==
    (pc = "done" /\ IsItemShape(shape, "single"))
        => /\ ret = Ok(TRUE)
           /\ IF shape.codes[1].codes = <<>>
                  THEN items = <<>>
                  ELSE /\ Len(items) = 1
                       /\ items[1].name = shape.base.primary.text
                       /\ items[1].size = shape.suffix
                       /\ items[1].plu_codes = shape.codes[1].codes
                       /\ items[1].category_path = category_path

\* "Green, bunch (33923)" has given the record "Green, bunch" with the code
\* 3392 and no size.
C17_GreenBunchEmitted ==
    /\ pc = "done"
    /\ text[1] = Chars("Green, bunch (33923)")
    /\ items = <<PluItem(Chars("Green, bunch"), <<3392>>, category_path,
                         None, <<>>, None)>>

====
